---- MODULE Spec2Model ----
(***************************************************************************)
(* Model of plugins/callback/foreman.py: the Foreman callback plugin.      *)
(*                                                                         *)
(* The plugin buffers one (task name, result) pair per task event and the  *)
(* facts carried by the results, and at the end of the run POSTs one facts *)
(* document and one report document per host.  Every callback of the       *)
(* plugin is one atomic action: the plugin is single-threaded and each     *)
(* callback runs to completion (or raises) before the next one starts.     *)
(*                                                                         *)
(* Clock reads (start_time, get_time, get_now) only fill the fields        *)
(* reported_at, _timestamp and metrics.time.total of the documents; those  *)
(* fields are left out of the modelled documents.                          *)
(***************************************************************************)
EXTENDS Integers, Sequences, FiniteSets, TLC

\* ------------------------------------------------------------------ bounds
\* Number of task events (v2_runner_on_* calls) of a run of RunSpec.
MaxResults == 3
\* Number of task events of a run of Spec, which starts at configuration.
MaxFewResults == 2
\* Number of end-of-run events (v2_playbook_on_stats calls).
MaxStats == 1
\* Number of task events and of end-of-run events of a run of RerunSpec.
MaxRerunResults == 2
MaxReruns == 2

\* ------------------------------------------------------------------ inputs
Hosts == {"h1", "h2"}

\* Task results (result._task.get_name(), result._result) of a run.  A value
\* is a Python dict: a record, where a key that is not in the DOMAIN is a key
\* the dict does not have.  The key "stdout" holding "bytes" stands for a
\* member json.dumps cannot encode.
Results ==
    { [name |-> "t1", value |-> [changed |-> TRUE]],
      [name |-> "t1", value |-> [failed |-> FALSE, changed |-> TRUE]],
      [name |-> "t2", value |-> [failed |-> TRUE, changed |-> FALSE]],
      [name |-> "t1", value |-> [ansible_facts |-> [a |-> 1]]],
      [name |-> "t2", value |-> [ansible_facts |-> [a |-> 2, b |-> 3], changed |-> TRUE]],
      [name |-> "t2", value |-> [stdout |-> "bytes"]] }

\* The task results of the runs that start at configuration.
FewResults ==
    { [name |-> "t1", value |-> [ansible_facts |-> [a |-> 1]]],
      [name |-> "t2", value |-> [stdout |-> "bytes"]] }

\* Values of the option url.
Urls == {"http://localhost:3000", "https://foreman.example.com"}
\* url.startswith('https://')
StartsWithHttps(url) == url = "https://foreman.example.com"

\* Values of the option verify_certs after str().
VerifyOptions == {"1", "0", "/etc/ssl/ca.pem"}

\* requests.__version__ as the tuple of its integer components.
Versions == {<<2, 13, 1>>, <<2, 14, 0>>}
NoVersion == <<>>
MinRequestsVersion == <<2, 14>>

\* What a POST can do: answer 2xx, fail to connect (session.post raises
\* ConnectionError), or answer a non-2xx status (raise_for_status raises
\* HTTPError).  Both exceptions are RequestException subclasses.
Outcomes == {"ok", "connection_error", "http_500"}
FactsOutcomes == {"ok", "http_500"}

\* stats.summarize(host)
Summaries ==
    { [ok |-> 1, changed |-> 1, failures |-> 0, unreachable |-> 0, skipped |-> 0],
      [ok |-> 0, changed |-> 0, failures |-> 1, unreachable |-> 2, skipped |-> 3] }

\* ------------------------------------------------------------------- state
VARIABLES
    HAS_REQUESTS,      \* module level: did the import of requests succeed
    requests_version,  \* requests.__version__, parsed
    pc,                \* "Uninitialized" until set_options has been called
    disabled,          \* self.disabled
    foreman_url,       \* self.foreman_url
    session,           \* self.session
    items,             \* self.items: host -> sequence of <<task name, value>>
    facts,             \* self.facts: host -> (fact name -> fact value)
    factsKeys,         \* the keys of self.facts in insertion order
    posts,             \* every session.post call made so far, in order
    warnings,          \* every self._display.warning call so far, in order
    raised,            \* the exception that escaped the latest callback
    stats,             \* the argument of the latest v2_playbook_on_stats
    nstats,            \* number of v2_playbook_on_stats calls so far
    ingestLog,         \* every append_result call so far, in order
    clearedAt,         \* host -> Len(ingestLog) when items[host] was last reset
    statsAt            \* Len(ingestLog) at the latest v2_playbook_on_stats

vars == <<HAS_REQUESTS, requests_version, pc, disabled, foreman_url, session,
          items, facts, factsKeys, posts, warnings, raised, stats, nstats,
          ingestLog, clearedAt, statsAt>>

\* ----------------------------------------------------------------- helpers
Range(s) == {s[i] : i \in 1..Len(s)}

\* Sequences of distinct hosts: the key orders a dict of hosts can have.
HostOrders == {s \in UNION {[1..n -> Hosts] : n \in 0..Cardinality(Hosts)} :
                  \A i, j \in 1..Len(s) : i # j => s[i] # s[j]}

\* Python's tuple comparison v < w.
RECURSIVE TupleLess(_, _)
TupleLess(v, w) ==
    IF w = <<>> THEN FALSE
    ELSE IF v = <<>> THEN TRUE
    ELSE IF Head(v) # Head(w) THEN Head(v) < Head(w)
    ELSE TupleLess(Tail(v), Tail(w))

NoSession == [set |-> FALSE, verify |-> "unset", cert |-> <<"unset", "unset">>]
EmptyDict == [k \in {} |-> 0]
NoStats == [processed |-> <<>>, summarize |-> EmptyDict]

\* The plugin after __init__, in a process where requests may be missing or
\* old.
Init ==
    /\ HAS_REQUESTS \in BOOLEAN
    /\ requests_version \in (IF HAS_REQUESTS THEN Versions ELSE {NoVersion})
    /\ pc = "Uninitialized"
    /\ disabled = FALSE
    /\ foreman_url = "unset"
    /\ session = NoSession
    /\ items = EmptyDict
    /\ facts = EmptyDict
    /\ factsKeys = <<>>
    /\ posts = <<>>
    /\ warnings = <<>>
    /\ raised = "none"
    /\ stats = NoStats
    /\ nstats = 0
    /\ ingestLog = <<>>
    /\ clearedAt = [h \in Hosts |-> 0]
    /\ statsAt = 0

\* The plugin after __init__ and set_options with the documented defaults
\* (url http://localhost:3000, verify_certs 1, disable_callback 0) and a
\* supported requests: the Active plugin at the start of a run.
ConfiguredDefault ==
    /\ HAS_REQUESTS = TRUE
    /\ requests_version = <<2, 14, 0>>
    /\ pc = "Configured"
    /\ disabled = FALSE
    /\ foreman_url = "http://localhost:3000"
    /\ session = [set |-> TRUE, verify |-> "True",
                  cert |-> <<"client_cert", "client_key">>]
    /\ items = EmptyDict
    /\ facts = EmptyDict
    /\ factsKeys = <<>>
    /\ posts = <<>>
    /\ warnings = <<>>
    /\ raised = "none"
    /\ stats = NoStats
    /\ nstats = 0
    /\ ingestLog = <<>>
    /\ clearedAt = [h \in Hosts |-> 0]
    /\ statsAt = 0

\* ------------------------------------------------------------- set_options
\* A _disable_plugin that flips the flag instead of setting it.
_disable_plugin_Toggle(st, msg) ==
    [disabled |-> ~st.disabled,
     warnings |-> Append(st.warnings, [kind |-> "disable", msg |-> msg])]

\* A _disable_plugin that warns only when the plugin is not disabled yet.
_disable_plugin_WarnOnce(st, msg) ==
    [disabled |-> TRUE,
     warnings |-> IF st.disabled THEN st.warnings
                  ELSE Append(st.warnings, [kind |-> "disable", msg |-> msg])]

\* _disable_plugin(msg) on the pair st = [disabled, warnings].
_disable_plugin(st, msg) ==
    [disabled |-> TRUE,
     warnings |-> Append(st.warnings, [kind |-> "disable", msg |-> msg])]

\* _ssl_verify(option): to_bool(option), or the option itself (a CA bundle
\* path) when to_bool raises TypeError; the second component is the warning
\* emitted when verification is switched off.
_ssl_verify(option) ==
    LET verify == IF option = "1" THEN "True"
                  ELSE IF option = "0" THEN "False"
                  ELSE option
    IN [verify |-> verify,
        warnings |-> IF verify = "False"
                     THEN <<[kind |-> "ssl", msg |-> "SSL verification disabled"]>>
                     ELSE <<>>]

set_options(disable_callback, url, cert_exists, key_exists, verify_certs) ==
    LET s0 == [disabled |-> disabled, warnings |-> warnings]
        s1 == IF disable_callback
              THEN _disable_plugin(s0, "Callback disabled by environment.")
              ELSE s0
        s2 == IF HAS_REQUESTS
              THEN IF TupleLess(requests_version, MinRequestsVersion)
                   THEN _disable_plugin(s1, "The requests python module is older than 2.14.0.")
                   ELSE s1
              ELSE _disable_plugin(s1, "The requests python module is not installed")
        s3 == IF StartsWithHttps(url) /\ ~cert_exists
              THEN _disable_plugin(s2, "FOREMAN_SSL_CERT not found.")
              ELSE s2
        s4 == IF StartsWithHttps(url) /\ ~key_exists
              THEN _disable_plugin(s3, "FOREMAN_SSL_KEY not found.")
              ELSE s3
        v  == _ssl_verify(verify_certs)
    IN /\ pc = "Uninitialized"
       /\ pc' = "Configured"
       /\ foreman_url' = url
       /\ disabled' = s4.disabled
       /\ IF HAS_REQUESTS
          THEN /\ session' = [set |-> TRUE, verify |-> v.verify,
                              cert |-> <<"client_cert", "client_key">>]
               /\ warnings' = s4.warnings \o v.warnings
               /\ raised' = "none"
          ELSE \* requests.Session(): the name requests is unbound
               /\ session' = session
               /\ warnings' = s4.warnings
               /\ raised' = "NameError"
       /\ UNCHANGED <<HAS_REQUESTS, requests_version, items, facts, factsKeys,
                      posts, stats, nstats, ingestLog, clearedAt, statsAt>>

\* ---------------------------------------------------------------- build_log
\* The level build_log gives a result value.
Level(msg) ==
    IF "failed" \in DOMAIN msg THEN "err"
    ELSE IF "changed" \in DOMAIN msg /\ msg.changed THEN "notice"
    ELSE "info"

\* Can json.dumps encode msg; it raises TypeError when it cannot.
JsonSerializable(msg) == "stdout" \notin DOMAIN msg \/ msg.stdout # "bytes"

\* json.dumps(msg): the JSON text of msg, kept as a tagged copy of msg.
json_dumps(msg) == [json |-> msg]

\* One element yielded by build_log.
LogEntry(source, msg) ==
    [log |-> [sources |-> [source |-> source],
              messages |-> [message |-> json_dumps(msg)],
              level |-> Level(msg)]]

\* list(build_log(data)) raises TypeError at the first item json.dumps
\* cannot encode.
BuildLogRaises(data) == \E i \in 1..Len(data) : ~JsonSerializable(data[i][2])

\* list(build_log(data)) when it does not raise.
build_log(data) == [i \in 1..Len(data) |-> LogEntry(data[i][1], data[i][2])]

\* ------------------------------------------------------------ append_result
\* d.update(u) on dicts.
DictUpdate(d, u) ==
    [k \in DOMAIN d \cup DOMAIN u |-> IF k \in DOMAIN u THEN u[k] ELSE d[k]]

\* d[key] = value on a dict.
DictSet(d, key, value) ==
    [k \in DOMAIN d \cup {key} |-> IF k = key THEN value ELSE d[k]]

\* d[key] on a defaultdict: the default when the key is missing.
DictGet(d, key, default) == IF key \in DOMAIN d THEN d[key] ELSE default

\* An append_result that puts the new pair in front.
ItemsAppend_Prepend(its, host, name, value) ==
    DictSet(its, host, <<<<name, value>>>> \o DictGet(its, host, <<>>))

\* self.items[host].append((name, value))
ItemsAppend(its, host, name, value) ==
    DictSet(its, host, Append(DictGet(its, host, <<>>), <<name, value>>))

\* An append_result that looks up self.facts[host] before it tests the value,
\* which creates the facts of a host that has none.
FactsMerge_Touch(fcts, host, value) ==
    DictSet(fcts, host,
            IF "ansible_facts" \in DOMAIN value
            THEN DictUpdate(DictGet(fcts, host, EmptyDict), value.ansible_facts)
            ELSE DictGet(fcts, host, EmptyDict))

\* An append_result that replaces the facts of the host by the new ones.
FactsMerge_Replace(fcts, host, value) ==
    IF "ansible_facts" \in DOMAIN value
    THEN DictSet(fcts, host, value.ansible_facts)
    ELSE fcts

\* if 'ansible_facts' in value: self.facts[host].update(value['ansible_facts'])
FactsMerge(fcts, host, value) ==
    IF "ansible_facts" \in DOMAIN value
    THEN DictSet(fcts, host,
                 DictUpdate(DictGet(fcts, host, EmptyDict), value.ansible_facts))
    ELSE fcts

append_result(name, host, value) ==
    /\ pc = "Configured"
    /\ items' = ItemsAppend(items, host, name, value)
    /\ facts' = FactsMerge(facts, host, value)
    /\ factsKeys' = IF host \in DOMAIN facts' /\ host \notin DOMAIN facts
                    THEN Append(factsKeys, host) ELSE factsKeys
    /\ raised' = "none"
    /\ ingestLog' = Append(ingestLog, [host |-> host, name |-> name, value |-> value])
    /\ UNCHANGED <<HAS_REQUESTS, requests_version, pc, disabled, foreman_url,
                   session, posts, warnings, stats, nstats, clearedAt,
                   statsAt>>

v2_runner_on_failed(name, host, value) == append_result(name, host, value)
v2_runner_on_unreachable(name, host, value) == append_result(name, host, value)
v2_runner_on_async_ok(name, host, value) == append_result(name, host, value)
v2_runner_on_async_failed(name, host, value) == append_result(name, host, value)
v2_runner_on_ok(name, host, value) == append_result(name, host, value)

\* --------------------------------------------------------------- publishing
\* The effect of one POST inside try/except RequestException on the run
\* record st = [items, posts, warnings, raised, cleared].  With no session
\* (set_options raised before creating it) self.session raises
\* AttributeError inside the try, and evaluating the except clause raises
\* NameError because the name requests is unbound.
Post(st, kind, url, host, body, outcome) ==
    IF ~session.set
    THEN [st EXCEPT !.raised = "NameError"]
    ELSE [st EXCEPT
            !.posts = Append(@, [kind |-> kind, url |-> url, host |-> host,
                                 body |-> body, outcome |-> outcome,
                                 call |-> nstats + 1]),
            !.warnings = IF outcome = "ok" THEN @
                         ELSE Append(@, [kind |-> kind, msg |-> host])]

FactsUrl == <<foreman_url, "/api/v2/hosts/facts">>
ReportsUrl == <<foreman_url, "/api/v2/config_reports">>

FactsDocument(host) ==
    [name |-> host,
     facts |-> [ansible_facts |-> facts[host], _type |-> "ansible"]]

\* A status block that leaves the unreachable count out of failed.
ReportStatus_FailuresOnly(total) ==
    [applied |-> total.changed,
     failed |-> total.failures,
     skipped |-> total.skipped]

\* The status block of a report.
ReportStatus(total) ==
    [applied |-> total.changed,
     failed |-> total.failures + total.unreachable,
     skipped |-> total.skipped]

ReportDocument(host, total, data) ==
    [config_report |-> [host |-> host,
                        status |-> ReportStatus(total),
                        logs |-> build_log(data),
                        reporter |-> "ansible"]]

\* The loop of send_facts over the hosts still to visit.
RECURSIVE SendFactsLoop(_, _, _)
SendFactsLoop(st, hosts, outcome) ==
    IF hosts = <<>> \/ st.raised # "none" THEN st
    ELSE LET host == Head(hosts)
         IN SendFactsLoop(Post(st, "facts", FactsUrl, host, FactsDocument(host),
                               outcome[host]),
                          Tail(hosts), outcome)

\* A send_facts that gives up at the first facts POST that fails.
send_facts_StopOnFailure(st, outcome) ==
    LET failing == {i \in 1..Len(factsKeys) : outcome[factsKeys[i]] # "ok"}
        last == IF failing = {} THEN Len(factsKeys)
                ELSE CHOOSE i \in failing : \A j \in failing : i <= j
    IN SendFactsLoop(st, SubSeq(factsKeys, 1, last), outcome)

\* send_facts(): the loop over self.facts.items(), in insertion order.
send_facts(st, outcome) == SendFactsLoop(st, factsKeys, outcome)

\* A send_reports that visits the hosts that have buffered items.
ReportHosts_ItemsKeys(its, sts) ==
    CHOOSE order \in HostOrders : Range(order) = DOMAIN its

\* The hosts send_reports visits, in order: stats.processed.keys().
ReportHosts(its, sts) == sts.processed

\* stats.summarize(host): the counters of a host, 0 for a host that was not
\* processed.
ZeroSummary == [ok |-> 0, changed |-> 0, failures |-> 0, unreachable |-> 0, skipped |-> 0]
Summarize(sts, host) ==
    IF host \in DOMAIN sts.summarize THEN sts.summarize[host] ELSE ZeroSummary

\* A send_reports that resets items[host] only when the POST succeeded.
SendReport_ClearOnSuccess(st, host, total, outcome) ==
    LET data == DictGet(st.items, host, <<>>)
        st1 == [st EXCEPT !.items = DictSet(@, host, data)]
    IN IF BuildLogRaises(data) THEN [st1 EXCEPT !.raised = "TypeError"]
       ELSE LET st2 == Post(st1, "report", ReportsUrl, host,
                            ReportDocument(host, total, data), outcome)
            IN IF st2.raised # "none" \/ outcome # "ok" THEN st2
               ELSE [st2 EXCEPT !.items = DictSet(@, host, <<>>),
                                !.cleared = @ \cup {host}]

\* One iteration of the loop of send_reports.  self.items[host] creates the
\* key of a host that has none; the report is built before the try, so a
\* TypeError of json.dumps escapes; items[host] is reset after the try.
SendReport(st, host, total, outcome) ==
    LET data == DictGet(st.items, host, <<>>)
        st1 == [st EXCEPT !.items = DictSet(@, host, data)]
    IN IF BuildLogRaises(data) THEN [st1 EXCEPT !.raised = "TypeError"]
       ELSE LET st2 == Post(st1, "report", ReportsUrl, host,
                            ReportDocument(host, total, data), outcome)
            IN IF st2.raised # "none" THEN st2
               ELSE [st2 EXCEPT !.items = DictSet(@, host, <<>>),
                                !.cleared = @ \cup {host}]

RECURSIVE SendReportsLoop(_, _, _, _)
SendReportsLoop(st, hosts, sts, outcome) ==
    IF hosts = <<>> \/ st.raised # "none" THEN st
    ELSE LET host == Head(hosts)
         IN SendReportsLoop(SendReport(st, host, Summarize(sts, host), outcome[host]),
                            Tail(hosts), sts, outcome)

\* A send_reports that ends by emptying the buffer of every host.
send_reports_ClearAll(st, sts, outcome) ==
    [SendReportsLoop(st, ReportHosts(st.items, sts), sts, outcome)
        EXCEPT !.items = EmptyDict]

\* The loop over the hosts of the stats object.
send_reports(st, sts, outcome) ==
    SendReportsLoop(st, ReportHosts(st.items, sts), sts, outcome)

\* send_facts(), then send_reports(stats) unless send_facts raised.
v2_playbook_on_stats(sts, factsOutcome, reportOutcome) ==
    LET st0 == [items |-> items, posts |-> posts, warnings |-> warnings,
                raised |-> "none", cleared |-> {}]
        st1 == send_facts(st0, factsOutcome)
        st2 == IF st1.raised # "none" THEN st1
               ELSE send_reports(st1, sts, reportOutcome)
    IN /\ pc = "Configured"
       /\ nstats' = nstats + 1
       /\ stats' = sts
       /\ items' = st2.items
       /\ posts' = st2.posts
       /\ warnings' = st2.warnings
       /\ raised' = st2.raised
       /\ clearedAt' = [h \in Hosts |-> IF h \in st2.cleared THEN Len(ingestLog)
                                        ELSE clearedAt[h]]
       /\ statsAt' = Len(ingestLog)
       /\ UNCHANGED <<HAS_REQUESTS, requests_version, pc, disabled, foreman_url,
                      session, facts, factsKeys, ingestLog>>

\* The stats objects a run can end with: the processed hosts in the order
\* they were first seen, and the summary of each.
StatsInputs ==
    UNION {{[processed |-> order, summarize |-> [h \in Range(order) |-> sm]] :
               sm \in Summaries} : order \in HostOrders}

\* ------------------------------------------------------------ specifications
Configure ==
    \E dc \in BOOLEAN, url \in Urls, ce \in BOOLEAN, ke \in BOOLEAN,
       vc \in VerifyOptions : set_options(dc, url, ce, ke, vc)

Ingest(results, max) ==
    /\ Len(ingestLog) < max
    /\ \E r \in results, host \in Hosts :
          \/ v2_runner_on_ok(r.name, host, r.value)
          \/ v2_runner_on_failed(r.name, host, r.value)
          \/ v2_runner_on_unreachable(r.name, host, r.value)
          \/ v2_runner_on_async_ok(r.name, host, r.value)
          \/ v2_runner_on_async_failed(r.name, host, r.value)

EndOfRun ==
    /\ nstats < MaxStats
    /\ \E sts \in StatsInputs :
          \E fo \in [DOMAIN facts -> FactsOutcomes],
             ro \in [Range(sts.processed) \cup DOMAIN items -> Outcomes] :
             v2_playbook_on_stats(sts, fo, ro)

\* The whole life of the plugin: configuration, then task events and
\* end-of-run events.
Next == Configure \/ Ingest(FewResults, MaxFewResults) \/ EndOfRun

Spec == Init /\ [][Next]_vars

\* A run of the plugin configured with the defaults.
RunNext == Ingest(Results, MaxResults) \/ EndOfRun

RunSpec == ConfiguredDefault /\ [][RunNext]_vars

\* The results, outcomes and stats objects of a run that ends more than once:
\* the same plugin object gets several v2_playbook_on_stats calls, with task
\* events before and between them.
RerunResults ==
    { [name |-> "t1", value |-> [changed |-> TRUE]],
      [name |-> "t1", value |-> [ansible_facts |-> [a |-> 1]]],
      [name |-> "t2", value |-> [ansible_facts |-> [a |-> 2, b |-> 3], changed |-> TRUE]],
      [name |-> "t2", value |-> [stdout |-> "bytes"]] }
RerunOutcomes == {"ok", "http_500"}
RerunStatsInputs ==
    {[processed |-> order, summarize |-> [h \in Range(order) |-> ZeroSummary]] :
        order \in HostOrders}

RerunEndOfRun ==
    /\ nstats < MaxReruns
    /\ \E sts \in RerunStatsInputs :
          \E fo \in [DOMAIN facts -> RerunOutcomes],
             ro \in [Range(sts.processed) \cup DOMAIN items -> RerunOutcomes] :
             v2_playbook_on_stats(sts, fo, ro)

RerunNext == Ingest(RerunResults, MaxRerunResults) \/ RerunEndOfRun

RerunSpec == ConfiguredDefault /\ [][RerunNext]_vars

\* ------------------------------------------------------------------ claims
\* The step of a v2_playbook_on_stats call.
EndOfRunStep == nstats' = nstats + 1

\* The indexes in posts of the report POSTs, and of those of one host.
ReportPosts(ps) == {i \in 1..Len(ps) : ps[i].kind = "report"}
ReportPostsOf(ps, h) == {i \in ReportPosts(ps) : ps[i].host = h}

\* The logs of a report POST.
LogsOf(post) == post.body.config_report.logs

\* C1: the level of a result value is err if it has a truthy failed
\* indicator, otherwise notice if it has a truthy changed indicator,
\* otherwise info (so failed=false, changed=true is notice).
TruthyLevel(msg) ==
    IF "failed" \in DOMAIN msg /\ msg.failed THEN "err"
    ELSE IF "changed" \in DOMAIN msg /\ msg.changed THEN "notice"
    ELSE "info"

C1_LevelByTruthiness ==
    \A i \in ReportPosts(posts) :
        \A j \in 1..Len(LogsOf(posts[i])) :
            LogsOf(posts[i])[j].log.level =
                TruthyLevel(LogsOf(posts[i])[j].log.messages.message.json)

\* C2: once the plugin is disabled no publish operation issues an HTTP POST.
\* Every POST is issued by an end-of-run call, which comes after
\* set_options, so a disabled plugin with a POST on record issued it after
\* its disablement.
C2_NoPostOnceDisabled == disabled => posts = <<>>

\* C5: a result value json.dumps cannot encode is handled like a transport
\* error at publish time: the host is skipped with a warning, the other
\* hosts are still processed, and no exception escapes the end-of-run call.
C5_MalformedValueSkipped ==
    [][EndOfRunStep =>
          /\ raised' = "none"
          /\ \A h \in Range(stats'.processed) :
                IF BuildLogRaises(DictGet(items, h, <<>>))
                THEN /\ ReportPostsOf(posts', h) = ReportPostsOf(posts, h)
                     /\ \E w \in Range(warnings') : w.kind = "report" /\ w.msg = h
                ELSE Cardinality(ReportPostsOf(posts', h)) =
                         Cardinality(ReportPostsOf(posts, h)) + 1]_vars

\* C6: in every disabling case set_options completes without raising and
\* leaves the plugin disabled.
C6_DisablingNeverRaises ==
    [][(/\ pc = "Uninitialized" /\ pc' = "Configured"
        /\ \/ ~HAS_REQUESTS
           \/ TupleLess(requests_version, MinRequestsVersion)
           \/ \E w \in Range(warnings') : w.kind = "disable")
       => (raised' = "none" /\ disabled')]_vars

\* The number of report POSTs a step issues for host h.
NewReportPosts(h) ==
    Cardinality(ReportPostsOf(posts', h)) - Cardinality(ReportPostsOf(posts, h))

\* Host h has a report POST on record with this outcome, had buffered
\* items when it was sent, and has none now.
ClearedAfter(h, outcome) ==
    /\ \E i \in ReportPostsOf(posts, h) :
          posts[i].outcome = outcome /\ LogsOf(posts[i]) # <<>>
    /\ items[h] = <<>>

\* C3 as stated: after send_reports returns, every host that had buffered
\* items has none, whatever the outcome of its POST.
C3_BufferedHostsCleared ==
    [][(EndOfRunStep /\ raised' = "none") =>
          \A h \in DOMAIN items : items[h] # <<>> => items'[h] = <<>>]_vars

\* C3 amended: after send_reports returns, every host listed in
\* stats.processed has no buffered items, whatever the outcome of its POST,
\* and every other host keeps the items it had.
C3_ProcessedHostsCleared ==
    [][(EndOfRunStep /\ raised' = "none") =>
          /\ \A h \in Range(stats'.processed) :
                h \in DOMAIN items' /\ items'[h] = <<>>
          /\ \A h \in DOMAIN items \ Range(stats'.processed) :
                items'[h] = items[h]]_vars

C3_Witness ==
    /\ raised = "none"
    /\ \E h, g \in DOMAIN items :
          /\ ClearedAfter(h, "http_500")
          /\ ClearedAfter(g, "ok")

\* C4: a transport failure of one host's report POST does not abort the
\* end-of-run call: a warning is logged, every processed host is attempted
\* and cleared, and no exception escapes v2_playbook_on_stats.
C4_TransportFailureIsolated ==
    [][(/\ EndOfRunStep
        /\ \E i \in ReportPosts(posts') : i > Len(posts) /\ posts'[i].outcome # "ok")
       => /\ raised' = "none"
          /\ \A h \in Range(stats'.processed) :
                /\ NewReportPosts(h) = 1
                /\ items'[h] = <<>>
          /\ \A i \in ReportPosts(posts') :
                (i > Len(posts) /\ posts'[i].outcome # "ok") =>
                    \E j \in (Len(warnings) + 1)..Len(warnings') :
                        warnings'[j] = [kind |-> "report", msg |-> posts'[i].host]]_vars

\* C7 as stated: send_reports makes exactly one report POST per call for
\* every host present in the buffered items and none for any other host.
C7_OnePostPerBufferedHost ==
    [][EndOfRunStep =>
          \A h \in Hosts :
              NewReportPosts(h) = IF h \in DOMAIN items THEN 1 ELSE 0]_vars

\* C7 amended: send_reports makes at most one report POST per call for each
\* host listed in stats.processed, exactly one for each of them when it
\* returns, and none for a host that is not listed, buffered items or not.
C7_OnePostPerProcessedHost ==
    [][EndOfRunStep =>
          \A h \in Hosts :
              /\ h \notin Range(stats'.processed) => NewReportPosts(h) = 0
              /\ h \in Range(stats'.processed) => NewReportPosts(h) <= 1
              /\ (h \in Range(stats'.processed) /\ raised' = "none")
                    => NewReportPosts(h) = 1]_vars

C7_Witness ==
    /\ nstats = 1 /\ raised = "none"
    /\ \E h, g \in Hosts :
          /\ h \in DOMAIN items /\ items[h] # <<>> /\ clearedAt[h] = 0
          /\ h \notin Range(stats.processed) /\ ReportPostsOf(posts, h) = {}
          /\ g \in Range(stats.processed) /\ ReportPostsOf(posts, g) # {}
          /\ \A i \in 1..Len(ingestLog) : ingestLog[i].host # g

\* The (task name, value) pairs ingested for host h since items[h] was last
\* reset, in the order of the ingestion calls.
IngestedSince(h) ==
    LET OfHost(e) == e.host = h
        sel == SelectSeq(SubSeq(ingestLog, clearedAt[h] + 1, Len(ingestLog)), OfHost)
    IN [i \in 1..Len(sel) |-> <<sel[i].name, sel[i].value>>]

\* The (source, message) pairs of the logs of a report POST.
LoggedPairs(post) ==
    [i \in 1..Len(LogsOf(post)) |->
        <<LogsOf(post)[i].log.sources.source,
          LogsOf(post)[i].log.messages.message.json>>]

\* C8: the logs of a host's report hold exactly one entry per result
\* ingested for that host since its last clear, in the order of the
\* ingestion calls, however the calls of the hosts interleave.
C8_LogsInIngestionOrder ==
    [][EndOfRunStep =>
          \A i \in ReportPosts(posts') :
              i > Len(posts) =>
                  LoggedPairs(posts'[i]) = IngestedSince(posts'[i].host)]_vars

C8_Witness ==
    /\ Len(ingestLog) = 3
    /\ ingestLog[1].host = ingestLog[3].host
    /\ ingestLog[2].host # ingestLog[1].host
    /\ ingestLog[1].name # ingestLog[3].name
    /\ \E i \in ReportPostsOf(posts, ingestLog[1].host) :
          LoggedPairs(posts[i]) = << <<ingestLog[1].name, ingestLog[1].value>>,
                                     <<ingestLog[3].name, ingestLog[3].value>> >>

\* The ingestion calls for host h whose value carries facts, and those whose
\* facts carry the name k.
WithFacts(h) ==
    {i \in 1..Len(ingestLog) :
        ingestLog[i].host = h /\ "ansible_facts" \in DOMAIN ingestLog[i].value}
Carriers(h, k) ==
    {i \in WithFacts(h) : k \in DOMAIN ingestLog[i].value.ansible_facts}
FactNames == {"a", "b"}
Latest(S) == CHOOSE i \in S : \A j \in S : j <= i

\* C9: the stored facts of a host map each fact name to the value of the
\* latest ingested result that carried it, keep the names only earlier
\* results carried, and are untouched by results without facts.
C9_FactsMergedKeywise ==
    \A h \in Hosts :
        /\ h \in DOMAIN facts <=> WithFacts(h) # {}
        /\ h \in DOMAIN facts =>
              /\ DOMAIN facts[h] = {k \in FactNames : Carriers(h, k) # {}}
              /\ \A k \in DOMAIN facts[h] :
                    facts[h][k] =
                        ingestLog[Latest(Carriers(h, k))].value.ansible_facts[k]

C9_Witness ==
    /\ Len(ingestLog) = 3
    /\ \A i \in 1..3 : ingestLog[i].host = "h1"
    /\ ingestLog[1].value = [ansible_facts |-> [a |-> 2, b |-> 3], changed |-> TRUE]
    /\ ingestLog[2].value = [ansible_facts |-> [a |-> 1]]
    /\ ingestLog[3].value = [changed |-> TRUE]
    /\ facts["h1"] = [a |-> 1, b |-> 3]

\* An ok result with changed=true: changed is true and there is no failed key.
OkChanged(value) ==
    /\ "changed" \in DOMAIN value /\ value.changed
    /\ "failed" \notin DOMAIN value

FactsPosts(ps) == {i \in 1..Len(ps) : ps[i].kind = "facts"}
FactsPostsOf(ps, h) == {i \in FactsPosts(ps) : ps[i].host = h}

\* The indexes in posts' of the POSTs the step issues.
NewPosts == (Len(posts) + 1)..Len(posts')

\* C11: in an end-of-run call every host with facts gets its facts POST
\* whatever the outcome of the report POSTs, all facts POSTs of the call
\* precede all of its report POSTs, and when a facts POST fails the report
\* of every processed host is still attempted.
C11_FactsAndReportsIndependent ==
    [][EndOfRunStep =>
          /\ \A h \in DOMAIN facts :
                \E i \in NewPosts : i \in FactsPostsOf(posts', h)
          /\ \A i, j \in NewPosts :
                (posts'[i].kind = "facts" /\ posts'[j].kind = "report") => i < j
          /\ (\E i \in NewPosts : /\ posts'[i].kind = "facts"
                                  /\ posts'[i].outcome # "ok")
                => \A h \in Range(stats'.processed) :
                      \E j \in NewPosts : j \in ReportPostsOf(posts', h)]_vars

\* Sequence s is an initial part of sequence t.
IsPrefix(s, t) == Len(s) <= Len(t) /\ SubSeq(t, 1, Len(s)) = s

\* C12: no step removes a host key of items or of facts or a fact name of a
\* host; the buffered items of a host only grow at their end, except that
\* the end-of-run call that issues the report POST of that host resets them
\* to empty.
C12_HostKeysOnlyGrow ==
    [][/\ DOMAIN items \subseteq DOMAIN items'
       /\ DOMAIN facts \subseteq DOMAIN facts'
       /\ \A h \in DOMAIN facts : DOMAIN facts[h] \subseteq DOMAIN facts'[h]
       /\ \A h \in DOMAIN items :
             \/ IsPrefix(items[h], items'[h])
             \/ /\ items'[h] = <<>>
                /\ EndOfRunStep
                /\ NewReportPosts(h) = 1]_vars

C12_Witness ==
    /\ nstats = 1
    /\ \E h, g \in DOMAIN items :
          /\ items[h] = <<>> /\ clearedAt[h] > 0
          /\ h \in DOMAIN facts /\ DOMAIN facts[h] = {"a", "b"}
          /\ items[g] # <<>> /\ ReportPostsOf(posts, g) = {}

\* The step of a set_options call.
ConfigureStep == pc = "Uninitialized" /\ pc' = "Configured"

\* The messages of the disablement warnings among ws, in order.
DisableMessages(ws) ==
    LET IsDisable(w) == w.kind = "disable"
        sel == SelectSeq(ws, IsDisable)
    IN [i \in 1..Len(sel) |-> sel[i].msg]

\* The disabling conditions a configuration hits, each by the message of
\* its warning, in the order set_options tests them.
DisablingConditions(disable_callback, url, cert_exists, key_exists) ==
    (IF disable_callback THEN <<"Callback disabled by environment.">> ELSE <<>>)
    \o (IF ~HAS_REQUESTS
        THEN <<"The requests python module is not installed">>
        ELSE IF TupleLess(requests_version, MinRequestsVersion)
        THEN <<"The requests python module is older than 2.14.0.">>
        ELSE <<>>)
    \o (IF StartsWithHttps(url) /\ ~cert_exists
        THEN <<"FOREMAN_SSL_CERT not found.">> ELSE <<>>)
    \o (IF StartsWithHttps(url) /\ ~key_exists
        THEN <<"FOREMAN_SSL_KEY not found.">> ELSE <<>>)

\* C13 as stated: a configuration that disables the plugin emits a single
\* disablement warning, however many disabling conditions it hits.
C13_SingleDisableWarning ==
    [][(ConfigureStep /\ disabled') => Len(DisableMessages(warnings')) = 1]_vars

\* C13 amended: set_options emits one disablement warning for each
\* disabling condition the configuration hits, in the order of the tests,
\* so a single one only when exactly one condition is hit.
C13_OneWarningPerCondition ==
    [][ConfigureStep =>
          \A dc \in BOOLEAN, url \in Urls, ce \in BOOLEAN, ke \in BOOLEAN,
             vc \in VerifyOptions :
                set_options(dc, url, ce, ke, vc) =>
                    /\ DisableMessages(warnings') = DisablingConditions(dc, url, ce, ke)
                    /\ disabled' = (DisablingConditions(dc, url, ce, ke) # <<>>)]_vars

C13_Witness ==
    /\ pc = "Configured" /\ disabled
    /\ DisableMessages(warnings) =
          <<"FOREMAN_SSL_CERT not found.", "FOREMAN_SSL_KEY not found.">>

\* The number of facts POSTs a step issues for host h.
NewFactsPosts(h) ==
    Cardinality(FactsPostsOf(posts', h)) - Cardinality(FactsPostsOf(posts, h))

\* C14: the send_facts of an end-of-run call issues exactly one facts POST
\* for every host present in facts and none for any other host, each to the
\* facts endpoint with all the facts stored for its host, whatever the
\* outcomes; it changes neither facts nor items: the call leaves facts as
\* they were, and the loop of send_facts hands on the items it was given.
C14_SendFactsFrame ==
    [][EndOfRunStep =>
          /\ \A h \in Hosts :
                NewFactsPosts(h) = IF h \in DOMAIN facts THEN 1 ELSE 0
          /\ \A i \in NewPosts :
                posts'[i].kind = "facts" =>
                    /\ posts'[i].url = <<foreman_url, "/api/v2/hosts/facts">>
                    /\ posts'[i].body.name = posts'[i].host
                    /\ posts'[i].body.facts.ansible_facts = facts[posts'[i].host]
          /\ facts' = facts
          /\ \A fo \in [DOMAIN facts -> FactsOutcomes] :
                send_facts([items |-> items, posts |-> posts,
                            warnings |-> warnings, raised |-> "none",
                            cleared |-> {}], fo).items = items
          /\ \A h \in DOMAIN items \ Range(stats'.processed) :
                items'[h] = items[h]]_vars

C14_Witness ==
    /\ nstats = 1
    /\ DOMAIN facts = Hosts
    /\ \E i, j \in FactsPosts(posts) :
          /\ i < j
          /\ posts[i].outcome = "http_500" /\ posts[j].outcome = "ok"
          /\ posts[j].body.facts.ansible_facts = [a |-> 2, b |-> 3]
    /\ \E h \in DOMAIN items : items[h] # <<>>

\* C15: the plugin is disabled from the first disabling condition on: a
\* set_options that emitted a disablement warning leaves it disabled
\* whatever its later tests find, and no later step (recording a result,
\* end-of-run call) clears the flag.
C15_DisabledIsTerminal ==
    [][(disabled \/ DisableMessages(warnings') # <<>>) => disabled']_vars

C15_Witness ==
    /\ disabled
    /\ Len(DisableMessages(warnings)) >= 2
    /\ ingestLog # <<>>
    /\ nstats = 1 /\ posts # <<>>

\* The step of an append_result call, and the call it records.
IngestStep == Len(ingestLog') = Len(ingestLog) + 1
LastCall(log) == log[Len(log)]

\* Mapping d holds the same for key k in the next state: absent, or present
\* with the same value.
SameAt(d, e, k) ==
    /\ k \in DOMAIN e <=> k \in DOMAIN d
    /\ k \in DOMAIN d => e[k] = d[k]

\* C16: recording a result for host h puts the pair (task name, value) at
\* the end of items[h] and changes nothing else of items[h], issues no POST,
\* leaves the items and the facts of every other host as they were, and
\* leaves facts[h] as it was when the value has no ansible_facts key.
C16_RecordResultFrame ==
    [][IngestStep =>
          LET call == LastCall(ingestLog')
              h == call.host
          IN /\ h \in DOMAIN items'
             /\ items'[h] = Append(DictGet(items, h, <<>>), <<call.name, call.value>>)
             /\ posts' = posts
             /\ \A g \in Hosts \ {h} :
                   SameAt(items, items', g) /\ SameAt(facts, facts', g)
             /\ "ansible_facts" \notin DOMAIN call.value => SameAt(facts, facts', h)]_vars

C16_Witness ==
    /\ nstats = 0
    /\ Len(ingestLog) = 3
    /\ "ansible_facts" \notin DOMAIN LastCall(ingestLog).value
    /\ \E h, g \in Hosts :
          /\ h # g
          /\ LastCall(ingestLog).host = h
          /\ Len(items[h]) = 1 /\ h \notin DOMAIN facts
          /\ g \in DOMAIN facts /\ Len(items[g]) = 2

\* The (task name, value) pairs ingested for host h after the first n
\* ingestion calls, in call order.
IngestedAfter(n, h) ==
    LET OfHost(e) == e.host = h
        sel == SelectSeq(SubSeq(ingestLog, n + 1, Len(ingestLog)), OfHost)
    IN [i \in 1..Len(sel) |-> <<sel[i].name, sel[i].value>>]

\* The logs of the report POSTs of host h among the first n POSTs of ps, one
\* after the other in the order of the POSTs.
RECURSIVE ReportedPairs(_, _, _)
ReportedPairs(ps, h, n) ==
    IF n = 0 THEN <<>>
    ELSE ReportedPairs(ps, h, n - 1)
         \o (IF ps[n].kind = "report" /\ ps[n].host = h
             THEN LoggedPairs(ps[n]) ELSE <<>>)

\* No ingested result of a host is in the logs of two report POSTs: the
\* logs of the host's reports, put end to end, are the results ingested for
\* it, each once and in call order, up to some point.
ReportedOnce(ps, log) ==
    \A h \in Hosts :
        LET OfHost(e) == e.host = h
            sel == SelectSeq(log, OfHost)
        IN IsPrefix(ReportedPairs(ps, h, Len(ps)),
                    [i \in 1..Len(sel) |-> <<sel[i].name, sel[i].value>>])

\* Every facts POST of the step carries all the facts accumulated for its
\* host, and every host with facts has one.
FactsResent ==
    /\ \A h \in DOMAIN facts : NewFactsPosts(h) = 1
    /\ \A i \in NewPosts :
          posts'[i].kind = "facts" =>
              posts'[i].body.facts.ansible_facts = facts[posts'[i].host]

\* C17 as stated: no ingested result is in the logs of more than one report
\* POST, an end-of-run call after the first reports only the results
\* ingested since the previous end-of-run call, and send_facts sends all the
\* accumulated facts again each time.
C17_OnlyResultsSincePreviousCall ==
    [][EndOfRunStep =>
          /\ ReportedOnce(posts', ingestLog')
          /\ nstats >= 1 =>
                \A i \in NewPosts :
                    posts'[i].kind = "report" =>
                        LoggedPairs(posts'[i]) = IngestedAfter(statsAt, posts'[i].host)
          /\ FactsResent]_vars

\* C17 amended: no ingested result is in the logs of more than one report
\* POST, every report POST of an end-of-run call carries the results
\* ingested for its host since the previous report POST of that host (the
\* previous call or an earlier one, or none), and send_facts sends all the
\* accumulated facts again each time.
C17_OnlyResultsSincePreviousReport ==
    [][EndOfRunStep =>
          /\ ReportedOnce(posts', ingestLog')
          /\ \A i \in NewPosts :
                posts'[i].kind = "report" =>
                    LoggedPairs(posts'[i]) = IngestedAfter(clearedAt[posts'[i].host],
                                                           posts'[i].host)
          /\ FactsResent]_vars

C17_Witness ==
    /\ nstats = 2
    /\ \E h \in Hosts :
          /\ \E i, j \in ReportPostsOf(posts, h) :
                /\ posts[i].call = 1 /\ posts[j].call = 2
                /\ posts[i].outcome = "http_500"
                /\ LogsOf(posts[i]) # <<>> /\ LogsOf(posts[j]) # <<>>
                /\ LoggedPairs(posts[i]) \o LoggedPairs(posts[j]) = IngestedAfter(0, h)
          /\ \E i, j \in FactsPostsOf(posts, h) :
                /\ posts[i].call = 1 /\ posts[j].call = 2
                /\ posts[i].body.facts.ansible_facts = [a |-> 1]
                /\ posts[j].body.facts.ansible_facts = [a |-> 2, b |-> 3]

====
